---- MODULE Spec2Model ----
(***************************************************************************)
(* Model of pypower.opf_execute.opf_execute(om, ppopt): the OPF solver     *)
(* dispatcher and result assembler.  One invocation is a run of the state  *)
(* machine  start -> dispatched -> stamped -> corrected -> expanded ->     *)
(* done, or it ends in "raised" when a statement raises.                   *)
(*                                                                         *)
(* Python dicts are modelled by records/functions together with the set of *)
(* keys that are present; numpy vectors by sequences (index i of the code  *)
(* is element i+1 of the sequence).                                        *)
(***************************************************************************)
EXTENDS Integers, Sequences, FiniteSets, TLC

VARIABLES pc, exc, ppopt, om, pyipopt, backend, alg, bound, results, success, raw, stderr

vars == <<pc, exc, ppopt, om, pyipopt, backend, alg, bound, results, success, raw, stderr>>

\* ---------------------------------------------------------------- bounds
\* largest width of one named block of the index registry
MaxN == 1
\* largest number of single-block PWL costs converted to polynomial (len(pwl1))
MaxPwl == 1
\* number of buses of the case
NB == 2

\* generators and branches of the case: enough rows for every PQ / angle block
NG == MaxN + 1
NL == MaxN + 1

\* ---------------------------------------------------------------- helpers
RECURSIVE BitOr(_, _)
\* Python's integer a | b
BitOr(a, b) ==
    IF a = 0 THEN b
    ELSE IF b = 0 THEN a
    ELSE (IF (a % 2 = 1) \/ (b % 2 = 1) THEN 1 ELSE 0) + 2 * BitOr(a \div 2, b \div 2)

RECURSIVE SumSeq(_)
SumSeq(s) == IF s = <<>> THEN 0 ELSE Head(s) + SumSeq(Tail(s))

Min(a, b) == IF a < b THEN a ELSE b
Max(a, b) == IF a > b THEN a ELSE b

\* numpy v[a:b] (0-based, end exclusive, clamped to the vector)
PySlice(v, a, b) ==
    LET lo == Min(Max(a, 0), Len(v))
        hi == Min(Max(b, lo), Len(v))
    IN  [i \in 1..(hi - lo) |-> v[lo + i]]

\* numpy arange(a, b)
arange(a, b) == [i \in 1..Max(b - a, 0) |-> a + i - 1]

\* numpy zeros(n)
zeros(n) == [i \in 1..n |-> 0]

\* numpy v[idx] for an index vector idx; defined when every index is in range
IndexOK(v, idx) == \A i \in DOMAIN idx : idx[i] >= 0 /\ idx[i] < Len(v)
Fancy(v, idx) == [i \in DOMAIN idx |-> v[idx[i] + 1]]

\* elementwise a - b of two vectors of equal length
VecSub(a, b) == [i \in DOMAIN a |-> a[i] - b[i]]

\* the set of elements of a sequence
Range(s) == {s[i] : i \in DOMAIN s}

\* ---------------------------------------------------------------- registry
\* One space of the model: its declared order and the width N of each name.
\* get_idx() gives, per name, i1 (first index) and iN (end index, exclusive);
\* the blocks are contiguous in the declared order.
RECURSIVE WidthBefore(_, _)
WidthBefore(space, j) ==
    IF j <= 1 THEN 0 ELSE WidthBefore(space, j - 1) + space.N[space.order[j - 1]]

Pos(space, name) == CHOOSE j \in DOMAIN space.order : space.order[j] = name

i1(space, name) == WidthBefore(space, Pos(space, name))
iN(space, name) == i1(space, name) + space.N[name]
getN(space, name) == space.N[name]
TotalN(space) == WidthBefore(space, Len(space.order) + 1)

VarOrder == <<"Pg", "Qg", "z">>
LinOrder == <<"PQh", "PQl", "ang">>
NlnOrder == <<"Pmis">>
CostOrder == <<"usr">>

\* every space with the given order and widths 0..MaxN
Spaces(order) == {[order |-> order, N |-> n] : n \in [Range(order) -> 0..MaxN]}
\* the space with the given order and every block of width w
Uniform(order, w) == [order |-> order, N |-> [nm \in Range(order) |-> w]]

\* ---------------------------------------------------------------- the model object om
\* userdata('pwl1'): the generators whose single-block PWL cost was converted
\* userdata('iang'): the branch rows that carry an angle limit
\* userdata('Apqdata'): the generator rows of the PQh / PQl constraints
Om(var, lin, nln, cost, k) ==
    [var |-> var, lin |-> lin, nln |-> nln, cost |-> cost,
     pwl1 |-> arange(0, k),
     iang |-> arange(0, lin.N["ang"]),
     Apqdata |-> [ipqh |-> arange(0, lin.N["PQh"]), ipql |-> arange(0, lin.N["PQl"])]]

userdata(m, key) == m[key]

\* ---------------------------------------------------------------- what a backend returns
\* A multiplier cell of the branch table: its value and the unit factor applied to it.
NoMu == [mu |-> 0, scale |-> "1"]

\* a flat vector of n distinct entries base+1 .. base+n
FlatVec(base, n) == [i \in 1..n |-> base + i]

\* the alg entry of raw['output']: absent, a number, or a sequence (list/array)
AlgAbsent == [present |-> FALSE, numeric |-> FALSE, val |-> <<>>]
AlgNum(a) == [present |-> TRUE, numeric |-> TRUE, val |-> <<a>>]
AlgSeq(s) == [present |-> TRUE, numeric |-> FALSE, val |-> s]

DerKeys == {"g", "dg", "df", "d2f"}
NoDer == [key \in {} |-> "none"]

\* the shapes of raw['output'] a backend may hand back: no 'output' record, an
\* 'output' without 'alg', an empty 'alg', a non-empty sequence, a number
RawShapes == {"nooutput", "noalg", "emptyalg", "seqalg", "numalg"}

BackendRaw(shape, der, x) ==
    [diag |-> IF shape = "nooutput" THEN {"xr", "info"} ELSE {"xr", "info", "output"},
     xr |-> x,
     info |-> 1,
     output |-> [alg |-> CASE shape = "emptyalg" -> AlgSeq(<<>>)
                           [] shape = "seqalg" -> AlgSeq(<<250>>)
                           [] shape = "numalg" -> AlgNum(250)
                           [] OTHER -> AlgAbsent],
     der |-> [key \in der |-> "backend"]]

\* the structured results a backend returns for the model m: the physical tables,
\* the flat solution x and the flat multipliers, and possibly the legacy 'dg'/'g'
BackendResults(m, vm, genbus, legacy) ==
    [bus |-> [b \in 1..NB |-> [VM |-> vm[b]]],
     gen |-> [g \in 1..NG |-> [GEN_BUS |-> genbus[g], VG |-> 0, MU_QMAX |-> 0, MU_QMIN |-> 0]],
     branch |-> [l \in 1..NL |-> [MU_ANGMIN |-> NoMu, MU_ANGMAX |-> NoMu]],
     x |-> FlatVec(10, TotalN(m.var)),
     mu |-> [var |-> [l |-> FlatVec(20, TotalN(m.var)), u |-> FlatVec(30, TotalN(m.var))],
             lin |-> [l |-> FlatVec(40, TotalN(m.lin)), u |-> FlatVec(50, TotalN(m.lin))],
             nln |-> [l |-> FlatVec(60, TotalN(m.nln)), u |-> FlatVec(70, TotalN(m.nln))]],
     legacy |-> legacy,
     var |-> <<>>, lin |-> <<>>, nln |-> <<>>, cost |-> <<>>]

\* the names results, success and raw before any backend has bound them
NoResults == BackendResults(Om(Uniform(VarOrder, 0), Uniform(LinOrder, 0),
                               Uniform(NlnOrder, 0), Uniform(CostOrder, 0), 0),
                            [b \in 1..NB |-> 0], [g \in 1..NG |-> 0], {})
EmptyRaw == [diag |-> {}, xr |-> <<>>, info |-> 0, output |-> [alg |-> AlgAbsent], der |-> NoDer]

\* the algorithm codes a caller may request
Codes == {0, 100, 120, 140, 160, 200, 220, 240, 260, 300, 545, 550, 560, 565, 580}

\* ---------------------------------------------------------------- initial states
InitWith(algs, rrds, ipopts, oms, shapes, legacies, ders, vms, genbuses) ==
    /\ pc = "start"
    /\ exc = [type |-> "none", at |-> "none"]
    /\ ppopt \in [PF_DC : BOOLEAN, OPF_ALG : algs, RETURN_RAW_DER : rrds, OPF_ALG_POLY : {<<>>}]
    /\ om \in oms
    /\ pyipopt \in ipopts
    /\ backend \in {[results |-> BackendResults(om, vm, gb, lg), success |-> ok,
                     raw |-> BackendRaw(sh, dr, FlatVec(10, TotalN(om.var)))] :
                        vm \in vms, gb \in genbuses, lg \in legacies, ok \in BOOLEAN,
                        sh \in shapes, dr \in ders}
    /\ alg = ppopt.OPF_ALG
    /\ bound = FALSE
    /\ results = NoResults
    /\ success = FALSE
    /\ raw = EmptyRaw
    /\ stderr = <<>>

\* ---------------------------------------------------------------- dispatch (lines 46-97)
\* The test  alg == a | alg == b : in Python | binds tighter than ==, so the
\* expression is the chained comparison  alg == (a | alg) == b .
LegacyTest(al, a, b) == (al = BitOr(a, al)) /\ (BitOr(a, al) = b)

\* update deprecated algorithm codes to their generalized equivalents
Remap(al) ==
    IF LegacyTest(al, 100, 200) THEN 300
    ELSE IF LegacyTest(al, 120, 220) THEN 320
    ELSE IF LegacyTest(al, 140, 240) THEN 340
    ELSE IF LegacyTest(al, 160, 260) THEN 360
    ELSE al

\* if OPF_ALG is not set choose MIPS, then remap the deprecated codes
ResolveAlg(requested) == Remap(IF requested = 0 THEN 560 ELSE requested)

\* which AC backend the resolved code routes to
Route(al) ==
    IF al = 560 \/ al = 565 THEN "pips"
    ELSE IF al = 580 THEN "ipopt"
    ELSE "invalid"

\* the diagnostics written to stderr
MsgIpopt(al) == [text |-> "requires IPOPT", code |-> al]
MsgInvalid(al) == [text |-> "is not a valid algorithm code", code |-> al]

\* results, success, raw = <backend>(om, ppopt)
BindBackend ==
    /\ bound' = TRUE
    /\ results' = backend.results
    /\ success' = backend.success
    /\ raw' = backend.raw

LeaveUnbound == UNCHANGED <<bound, results, success, raw>>

Dispatch ==
    /\ pc = "start"
    /\ pc' = "dispatched"
    /\ IF ppopt.PF_DC
       THEN /\ BindBackend
            /\ UNCHANGED <<alg, ppopt, stderr>>
       ELSE LET a == ResolveAlg(ppopt.OPF_ALG) IN
            /\ alg' = a
            /\ ppopt' = [ppopt EXCEPT !.OPF_ALG_POLY = <<a>>]
            /\ IF Route(a) = "pips"
               THEN BindBackend /\ UNCHANGED stderr
               ELSE IF Route(a) = "ipopt"
               THEN IF pyipopt
                    THEN BindBackend /\ UNCHANGED stderr
                    ELSE LeaveUnbound /\ stderr' = Append(stderr, MsgIpopt(a))
               ELSE LeaveUnbound /\ stderr' = Append(stderr, MsgInvalid(a))
    /\ UNCHANGED <<exc, om, pyipopt, backend>>

\* ---------------------------------------------------------------- stamping (lines 99-100)
\* ('output' not in raw) or ('alg' not in raw['output']) or (len(raw['output']['alg']) == 0)
\* evaluated left to right; len() of a number raises TypeError
StampTest(r) ==
    IF "output" \notin r.diag THEN "true"
    ELSE IF ~r.output.alg.present THEN "true"
    ELSE IF r.output.alg.numeric THEN "TypeError"
    ELSE IF Len(r.output.alg.val) = 0 THEN "true"
    ELSE "false"

\* raw['output']['alg'] = alg : the subscript raw['output'] raises KeyError when absent
StampStore(r, al) ==
    IF "output" \notin r.diag THEN "KeyError" ELSE "ok"

Stamped(r, al) == [r EXCEPT !.output.alg = AlgNum(al)]

Raise(type) ==
    /\ pc' = "raised"
    /\ exc' = [type |-> type, at |-> pc]

Stamp ==
    /\ pc = "dispatched"
    /\ IF ~bound
       THEN Raise("UnboundLocalError") /\ UNCHANGED raw
       ELSE IF StampTest(raw) = "TypeError"
       THEN Raise("TypeError") /\ UNCHANGED raw
       ELSE IF StampTest(raw) = "false"
       THEN pc' = "stamped" /\ UNCHANGED <<exc, raw>>
       ELSE IF StampStore(raw, alg) = "KeyError"
       THEN Raise("KeyError") /\ UNCHANGED raw
       ELSE pc' = "stamped" /\ raw' = Stamped(raw, alg) /\ UNCHANGED exc
    /\ UNCHANGED <<ppopt, om, pyipopt, backend, alg, bound, results, success, stderr>>

\* ---------------------------------------------------------------- post-solve corrections (lines 102-151)
\* the copy-back taking the bus row of the generator's own row number
CopyVoltages_OwnRow(res) ==
    [res EXCEPT !.gen = [g \in DOMAIN res.gen |->
        [res.gen[g] EXCEPT !.VG = res.bus[((g - 1) % NB) + 1].VM]]]

\* results['gen'][:, VG] = results['bus'][results['gen'][:, GEN_BUS].astype(int), VM]
CopyVoltages(res) ==
    [res EXCEPT !.gen = [g \in DOMAIN res.gen |->
        [res.gen[g] EXCEPT !.VG = res.bus[res.gen[g].GEN_BUS + 1].VM]]]

\* (ll['N']['PQh'] > 0) | (ll['N']['PQl'] > 0)
HasPQ(ll) == (getN(ll, "PQh") > 0) \/ (getN(ll, "PQl") > 0)

\* the entry of vector mu that belongs to table row g (0-based rows in idx), or 0
RowShare(idx, mu, g) ==
    IF \E j \in DOMAIN idx : idx[j] = g - 1 /\ j \in DOMAIN mu
    THEN mu[CHOOSE j \in DOMAIN idx : idx[j] = g - 1 /\ j \in DOMAIN mu]
    ELSE 0

\* update_mupq folds the PQ capability-curve multipliers into the generators'
\* reactive-power multiplier columns and returns the new gen table
update_mupq(gen, mu_PQh, mu_PQl, Apq) ==
    [g \in DOMAIN gen |->
        [gen[g] EXCEPT !.MU_QMAX = @ + RowShare(Apq.ipqh, mu_PQh, g),
                       !.MU_QMIN = @ + RowShare(Apq.ipql, mu_PQl, g)]]

\* gen PQ capability curve multipliers (lines 108-112)
PQMultipliers(res, m) ==
    IF HasPQ(m.lin)
    THEN LET l == res.mu.lin.l
             u == res.mu.lin.u
             mu_PQh == VecSub(PySlice(l, i1(m.lin, "PQh"), iN(m.lin, "PQh")),
                              PySlice(u, i1(m.lin, "PQh"), iN(m.lin, "PQh")))
             mu_PQl == VecSub(PySlice(l, i1(m.lin, "PQl"), iN(m.lin, "PQl")),
                              PySlice(u, i1(m.lin, "PQl"), iN(m.lin, "PQl")))
         IN  [res EXCEPT !.gen = update_mupq(res.gen, mu_PQh, mu_PQl, userdata(m, "Apqdata"))]
    ELSE res

\* d[key] = tag on the derivative entries of raw
Put(der, key, tag) == [k \in (DOMAIN der) \cup {key} |-> IF k = key THEN tag ELSE der[k]]

\* raw = {}; raw['dg'] = results['dg']; raw['g'] = results['g']   (lines 118-120)
RelocateDer(r) == [EmptyRaw EXCEPT !.der = Put(Put(NoDer, "dg", "results"), "g", "results")]

\* lines 115-133, reached with RETURN_RAW_DER set on a successful AC solve
Derivatives(res, r) ==
    LET r1 == IF "dg" \in res.legacy THEN RelocateDer(r) ELSE r
        r2 == IF "dg" \notin DOMAIN r1.der
              THEN [r1 EXCEPT !.der = Put(Put(@, "g", "computed"), "dg", "computed")]
              ELSE r1
    IN  [r2 EXCEPT !.der = Put(Put(@, "df", "computed"), "d2f", "computed")]

\* del results['dg']; del results['g']   (lines 136-138)
StripLegacy(res) ==
    IF "dg" \in res.legacy THEN [res EXCEPT !.legacy = @ \ {"dg", "g"}] ELSE res

\* a multiplier converted by  * pi / 180
Scaled(v) == [mu |-> v, scale |-> "pi/180"]

\* angle limit constraint multipliers (lines 141-144)
AngleMultipliers(res, m) ==
    IF getN(m.lin, "ang") > 0
    THEN LET iang == userdata(m, "iang")
             lo == PySlice(res.mu.lin.l, i1(m.lin, "ang"), iN(m.lin, "ang"))
             up == PySlice(res.mu.lin.u, i1(m.lin, "ang"), iN(m.lin, "ang"))
             At(row) == CHOOSE j \in DOMAIN iang : iang[j] = row - 1
         IN  [res EXCEPT !.branch = [row \in DOMAIN res.branch |->
                 IF \E j \in DOMAIN iang : iang[j] = row - 1
                 THEN [MU_ANGMIN |-> Scaled(lo[At(row)]), MU_ANGMAX |-> Scaled(up[At(row)])]
                 ELSE res.branch[row]]]
    ELSE res

\* the success branch without the  if not dc  guard of line 103
SuccessResults_NoDcGuard(res, m, dc) ==
    AngleMultipliers(StripLegacy(PQMultipliers(CopyVoltages(res), m)), m)

\* the success branch applied to results (lines 103-112, 136-144)
SuccessResults(res, m, dc) ==
    AngleMultipliers(StripLegacy(IF ~dc THEN PQMultipliers(CopyVoltages(res), m) ELSE res), m)

\* the failure branch without the  not dc  test of line 147
FailureRaw_NoDcTest(r, dc, rrd) ==
    IF rrd
    THEN [r EXCEPT !.der = Put(Put(Put(Put(@, "dg", "empty"), "g", "empty"), "df", "empty"), "d2f", "empty")]
    ELSE r

\* the failure branch applied to raw (lines 146-151)
FailureRaw(r, dc, rrd) ==
    IF ~dc /\ rrd
    THEN [r EXCEPT !.der = Put(Put(Put(Put(@, "dg", "empty"), "g", "empty"), "df", "empty"), "d2f", "empty")]
    ELSE r

PostSolve ==
    /\ pc = "stamped"
    /\ IF success
       THEN IF "dg" \in results.legacy /\ "g" \notin results.legacy
            THEN Raise("KeyError") /\ UNCHANGED <<results, raw>>
            ELSE /\ pc' = "corrected"
                 /\ results' = SuccessResults(results, om, ppopt.PF_DC)
                 /\ raw' = IF ~ppopt.PF_DC /\ ppopt.RETURN_RAW_DER
                           THEN Derivatives(results, raw) ELSE raw
                 /\ UNCHANGED exc
       ELSE /\ pc' = "corrected"
            /\ raw' = FailureRaw(raw, ppopt.PF_DC, ppopt.RETURN_RAW_DER)
            /\ UNCHANGED <<exc, results>>
    /\ UNCHANGED <<ppopt, om, pyipopt, backend, alg, bound, success, stderr>>

\* ---------------------------------------------------------------- result expansion (lines 153-187)
\* the expansion without the width test of lines 157/167/177/186
ExpandNames_NoWidthTest(space) == Range(space.order)

\* the names of a space that get an entry:  if om.getN(space, name)
ExpandNames(space) == {name \in Range(space.order) : getN(space, name) # 0}

\* idx = arange(i1[name], iN[name])
BlockIdx(space, name) == arange(i1(space, name), iN(space, name))

\* {name: vec[idx]} over the names that get an entry
ExpandVec(space, vec) == [name \in ExpandNames(space) |-> Fancy(vec, BlockIdx(space, name))]

\* vec[idx] raises IndexError when an index is outside vec
ExpandOK(space, vec) == \A name \in ExpandNames(space) : IndexOK(vec, BlockIdx(space, name))

\* om.compute_cost(x, name): the user cost of block name at the solved point
compute_cost(x, name) == SumSeq(x)

ExpandVar(res, m) ==
    IF m.var.order # <<>>
    THEN [res EXCEPT !.var = <<[val |-> ExpandVec(m.var, res.x),
                                mul |-> ExpandVec(m.var, res.mu.var.l),
                                muu |-> ExpandVec(m.var, res.mu.var.u)]>>]
    ELSE res

ExpandLin(res, m) ==
    IF m.lin.order # <<>>
    THEN [res EXCEPT !.lin = <<[mul |-> ExpandVec(m.lin, res.mu.lin.l),
                                muu |-> ExpandVec(m.lin, res.mu.lin.u)]>>]
    ELSE res

ExpandNln(res, m, dc) ==
    IF ~dc /\ m.nln.order # <<>>
    THEN [res EXCEPT !.nln = <<[mul |-> ExpandVec(m.nln, res.mu.nln.l),
                                muu |-> ExpandVec(m.nln, res.mu.nln.u)]>>]
    ELSE res

ExpandCost(res, m) ==
    IF m.cost.order # <<>>
    THEN [res EXCEPT !.cost = <<[name \in ExpandNames(m.cost) |-> compute_cost(res.x, name)]>>]
    ELSE res

Expanded(res, m, dc) == ExpandCost(ExpandNln(ExpandLin(ExpandVar(res, m), m), m, dc), m)

ExpandRaises(res, m, dc) ==
    \/ ~ExpandOK(m.var, res.x) \/ ~ExpandOK(m.var, res.mu.var.l) \/ ~ExpandOK(m.var, res.mu.var.u)
    \/ ~ExpandOK(m.lin, res.mu.lin.l) \/ ~ExpandOK(m.lin, res.mu.lin.u)
    \/ (~dc /\ (~ExpandOK(m.nln, res.mu.nln.l) \/ ~ExpandOK(m.nln, res.mu.nln.u)))

Expand ==
    /\ pc = "corrected"
    /\ IF ExpandRaises(results, om, ppopt.PF_DC)
       THEN Raise("IndexError") /\ UNCHANGED results
       ELSE /\ pc' = "expanded"
            /\ results' = Expanded(results, om, ppopt.PF_DC)
            /\ UNCHANGED exc
    /\ UNCHANGED <<ppopt, om, pyipopt, backend, alg, bound, success, raw, stderr>>

\* ---------------------------------------------------------------- PWL patch (lines 189-203)
\* (len(pwl1) > 0) and (alg != 545) and (alg != 550)
PwlTriggers(pwl1, al) == (Len(pwl1) > 0) /\ (al # 545) /\ (al # 550)

\* nx = vv['iN']['Pg'] for DC, vv['iN']['Qg'] for AC
SplitPoint(m, dc) == IF dc THEN iN(m.var, "Pg") ELSE iN(m.var, "Qg")

\* r_[v[:nx], zeros(k), v[nx:]]
InsertDummy(v, nx, k) == PySlice(v, 0, nx) \o zeros(k) \o PySlice(v, nx, Len(v))

PWLPatch ==
    /\ pc = "expanded"
    /\ LET pwl1 == userdata(om, "pwl1")
           nx == SplitPoint(om, ppopt.PF_DC)
       IN  IF PwlTriggers(pwl1, alg)
           THEN IF "xr" \notin raw.diag
                THEN Raise("KeyError") /\ UNCHANGED <<results, raw>>
                ELSE /\ pc' = "done"
                     /\ raw' = [raw EXCEPT !.xr = InsertDummy(@, nx, Len(pwl1))]
                     /\ results' = [results EXCEPT !.x = InsertDummy(@, nx, Len(pwl1))]
                     /\ UNCHANGED exc
           ELSE pc' = "done" /\ UNCHANGED <<exc, results, raw>>
    /\ UNCHANGED <<ppopt, om, pyipopt, backend, alg, bound, success, stderr>>

\* ---------------------------------------------------------------- specifications
Next == Dispatch \/ Stamp \/ PostSolve \/ Expand \/ PWLPatch

\* one registry with every block of width MaxN, and the case tables fixed
TypicalOms == {Om(Uniform(VarOrder, MaxN), Uniform(LinOrder, MaxN), Uniform(NlnOrder, MaxN),
                  Uniform(CostOrder, MaxN), k) : k \in 0..MaxPwl}
FixedVM == {[b \in 1..NB |-> 100 + b]}
FixedGenBus == {[g \in 1..NG |-> (g - 1) % NB]}

\* every requested code, every shape of the backend's raw and results
Init == InitWith(Codes, BOOLEAN, BOOLEAN, TypicalOms, RawShapes, SUBSET {"dg", "g"}, {{}, {"dg", "g"}},
                 FixedVM, FixedGenBus)

Spec == Init /\ [][Next]_vars

\* the linear-constraint widths and the case tables vary: the physical corrections
TableOms == {Om(Uniform(VarOrder, MaxN), lin, Uniform(NlnOrder, MaxN), Uniform(CostOrder, MaxN), 0) :
                lin \in Spaces(LinOrder)}
TableVM == FixedVM \cup {[b \in 1..NB |-> 100]}
TableGenBus == [1..NG -> 0..(NB - 1)]

InitTables == InitWith({0, 100}, BOOLEAN, {TRUE}, TableOms, {"noalg"}, {{}, {"dg", "g"}}, {{}},
                       TableVM, TableGenBus)

SpecTables == InitTables /\ [][Next]_vars

\* every registry with block widths 0..MaxN, a space may also declare no name
ExpandOms == {Om(v, l, n, c, k) :
                v \in Spaces(VarOrder), l \in Spaces(LinOrder),
                n \in Spaces(NlnOrder) \cup Spaces(<<>>), c \in Spaces(CostOrder) \cup Spaces(<<>>),
                k \in {0, MaxPwl}}

InitExpand == InitWith({0}, {FALSE}, {TRUE}, ExpandOms, {"noalg"}, {{}}, {{}},
                       FixedVM, FixedGenBus)

SpecExpand == InitExpand /\ [][Next]_vars

\* ---------------------------------------------------------------- properties
returned == pc = "done"
dc == ppopt.PF_DC
rrd == ppopt.RETURN_RAW_DER

\* the remapping as a logical OR of equality tests
LogicalRemap(al) ==
    IF al = 100 \/ al = 200 THEN 300
    ELSE IF al = 120 \/ al = 220 THEN 320
    ELSE IF al = 140 \/ al = 240 THEN 340
    ELSE IF al = 160 \/ al = 260 THEN 360
    ELSE al

\* C1: an AC invocation whose dispatch selects no backend (the resolved code is
\* not 560, 565 or 580, or it is 580 and pyipopt cannot be imported) does not
\* raise: it has written a diagnostic and ends with a falsy success.
C1_DispatchFailureDoesNotRaise ==
    (~dc /\ pc # "start" /\ ~bound) =>
        (pc # "raised" /\ stderr # <<>> /\ ~success)

\* C2: on an AC invocation the resolved code, written to ppopt['OPF_ALG_POLY']
\* and used for routing, is the requested code (560 when unset) with 100/200,
\* 120/220, 140/240, 160/260 replaced by 300, 320, 340, 360.
C2_LegacyCodesRemapped ==
    (~dc /\ pc # "start") =>
        LET want == LogicalRemap(IF ppopt.OPF_ALG = 0 THEN 560 ELSE ppopt.OPF_ALG)
        IN  alg = want /\ ppopt.OPF_ALG_POLY = <<want>>

\* C3: once a backend has returned, the stamping step completes for every shape
\* of raw and leaves raw['output']['alg'] defined: the backend's own non-empty
\* code if it reported one, the resolved code otherwise.
C3_StampAlwaysCompletes ==
    (bound /\ (pc = "stamped" \/ (pc = "raised" /\ exc.at = "dispatched"))) =>
        /\ pc = "stamped"
        /\ "output" \in raw.diag
        /\ raw.output.alg =
              IF "output" \in backend.raw.diag /\ backend.raw.output.alg.present
                 /\ (backend.raw.output.alg.numeric \/ backend.raw.output.alg.val # <<>>)
              THEN backend.raw.output.alg
              ELSE AlgNum(alg)

\* C4: after a successful solve the returned raw still carries the backend's
\* solver diagnostics and the algorithm code, also when RETURN_RAW_DER is set
\* and the backend put 'dg'/'g' in results; the PWL patch can read raw['xr'].
C4_RawKeepsDiagnostics ==
    /\ (returned /\ success) =>
          (backend.raw.diag \subseteq raw.diag /\ "output" \in raw.diag /\ raw.output.alg.present)
    /\ ~(success /\ pc = "raised" /\ exc.at = "expanded")

\* C5: after a successful AC solve every generator row of the returned results
\* has VG equal to VM of the bus that its GEN_BUS names.
C5_VoltageCopyBack ==
    (returned /\ success /\ ~dc) =>
        \A g \in DOMAIN results.gen :
            results.gen[g].VG = results.bus[results.gen[g].GEN_BUS + 1].VM

\* a successful AC solve has returned, update_mupq has replaced the gen table,
\* and two generators sit on buses of different voltage
C5_Witness ==
    /\ returned /\ success /\ ~dc
    /\ HasPQ(om.lin)
    /\ \E g \in DOMAIN results.gen : results.gen[g].MU_QMAX # backend.results.gen[g].MU_QMAX
    /\ \E g, h \in DOMAIN results.gen : results.gen[g].VG # results.gen[h].VG

\* whether the optional sub-mapping part (results['var']['val'], ...) has a key name
HasEntry(sub, field, name) == sub # <<>> /\ name \in DOMAIN sub[1][field]

\* entry is the slice [i1, iN) of vec and its length is iN - i1
IsBlockOf(entry, vec, space, name) ==
    /\ Len(entry) = iN(space, name) - i1(space, name)
    /\ \A j \in 1..Len(entry) : entry[j] = vec[i1(space, name) + j]

\* one dual-bearing space: a name has an entry iff its width is positive, and the
\* entry under each field is the block of the matching flat vector
SpaceExpanded(sub, space, fields, vecs) ==
    \A name \in Range(space.order) : \A f \in fields :
        /\ HasEntry(sub, f, name) <=> getN(space, name) > 0
        /\ HasEntry(sub, f, name) => IsBlockOf(sub[1][f][name], vecs[f], space, name)

\* C6: in the returned results, for var, lin, nln (AC only) and cost, a declared
\* name has an entry iff the registry gives it positive width; the var, lin and
\* nln entries are the slices [i1, iN) of the flat vectors the backend returned
\* (before the PWL patch), of length iN - i1.
C6_ExpansionMatchesRegistry ==
    returned =>
        LET b == backend.results IN
        /\ SpaceExpanded(results.var, om.var, {"val", "mul", "muu"},
                         [val |-> b.x, mul |-> b.mu.var.l, muu |-> b.mu.var.u])
        /\ SpaceExpanded(results.lin, om.lin, {"mul", "muu"},
                         [mul |-> b.mu.lin.l, muu |-> b.mu.lin.u])
        /\ IF dc THEN results.nln = <<>>
           ELSE SpaceExpanded(results.nln, om.nln, {"mul", "muu"},
                              [mul |-> b.mu.nln.l, muu |-> b.mu.nln.u])
        /\ \A name \in Range(om.cost.order) :
              (results.cost # <<>> /\ name \in DOMAIN results.cost[1]) <=> getN(om.cost, name) > 0

\* an AC call has returned for a registry that has a zero-width and a positive
\* width name in var and lin, with the PWL patch having lengthened x
C6_Witness ==
    /\ returned /\ ~dc
    /\ getN(om.var, "Pg") = 0 /\ getN(om.var, "Qg") > 0 /\ getN(om.var, "z") > 0
    /\ getN(om.lin, "PQh") > 0 /\ getN(om.lin, "ang") = 0
    /\ om.nln.order # <<>> /\ getN(om.nln, "Pmis") > 0
    /\ HasEntry(results.var, "val", "z") /\ ~HasEntry(results.var, "val", "Pg")
    /\ Len(results.x) > Len(backend.results.x)

\* the vector v with k zeros inserted at nx
Patched(v, nx, k) ==
    [i \in 1..(Len(v) + k) |-> IF i <= nx THEN v[i] ELSE IF i <= nx + k THEN 0 ELSE v[i - k]]

\* C7: when the call returns, raw['xr'] and results['x'] are the backend's
\* vectors with len(pwl1) zeros inserted at nx if the patch triggers, and the
\* backend's vectors unchanged otherwise; the patch itself does not raise.
C7_PatchInsertsPlaceholder ==
    /\ returned =>
          LET k == IF PwlTriggers(om.pwl1, alg) THEN Len(om.pwl1) ELSE 0
              nx == IF dc THEN iN(om.var, "Pg") ELSE iN(om.var, "Qg")
          IN  /\ "xr" \in raw.diag
              /\ raw.xr = Patched(backend.raw.xr, nx, k)
              /\ results.x = Patched(backend.results.x, nx, k)
    /\ ~(pc = "raised" /\ exc.at = "expanded")

\* C8: after an unsuccessful solve the returned raw holds 'g', 'dg', 'df', 'd2f'
\* as empty arrays if the call is AC with RETURN_RAW_DER set, and otherwise
\* exactly the derivative fields the backend returned.
C8_FailureDerivatives ==
    (returned /\ ~success) =>
        IF ~dc /\ rrd
        THEN DOMAIN raw.der = DerKeys /\ \A key \in DerKeys : raw.der[key] = "empty"
        ELSE raw.der = backend.raw.der

\* a failed AC solve with RETURN_RAW_DER set has returned, the backend's own
\* 'dg' and 'g' having been overwritten by the empty placeholders
C8_Witness ==
    /\ returned /\ ~success /\ ~dc /\ rrd
    /\ "dg" \in DOMAIN backend.raw.der
    /\ raw.der["dg"] = "empty" /\ raw.der["d2f"] = "empty"

\* C9: whenever the call returns, results holds neither 'dg' nor 'g'.
C9_NoLegacyKeysInResults ==
    returned => results.legacy \cap {"dg", "g"} = {}

====
